---- MODULE Spec2Model ----
(***************************************************************************)
(* The tunnel subsystem of axon: PortForwarder::run (one Listener with its *)
(* shutdown watcher, accept task, reap task and one ConnectionHandler per  *)
(* accepted connection), run under a sigfinn LifecycleManager by the       *)
(* port-forward command (one Listener per port mapping) and by the ssh     *)
(* shell command (one Listener plus the ssh-client task). With it: the     *)
(* annotations that carry a pod's port mappings and service ports, the     *)
(* cancellable file transfer of the ssh session, and the pod console.      *)
(***************************************************************************)
EXTENDS Integers, Sequences, FiniteSets, TLC

(* ------------------------------ bounds -------------------------------- *)
MaxListeners == 2      \* port mappings of the pod (Listeners supervised together)
MaxConn == 2           \* local connections accepted during one run of one Listener
MaxGroupConn == 1      \* the same, all together, when several tasks are supervised
MaxPendingReaps == 1   \* ReapConnections events waiting in one event channel
MaxBytes == 2          \* bytes one peer writes on a bridged connection
MaxMappings == 2       \* port mappings one pod is created with
MaxChunks == 2         \* chunks of the file one upload or download transfers

(* ------------------------- program constants -------------------------- *)
RequestedPorts == {0, 8080}  \* local ports a caller asks for; 0 = "any port"
MappedPorts == {8080}         \* local ports of the port mappings of a pod
EphemeralPorts == {49152}    \* what the OS may bind when port 0 is requested
SshTask == 0                 \* the supervised "ssh-client" task; Listeners are 1..n

Listeners == 1..MaxListeners
ConnIds == 1..MaxConn
Background == {"W", "A", "R"}   \* shutdown watcher, accept task, reap task
TaskIds == {<<l, k, 0>> : l \in Listeners, k \in Background}
              \cup {<<l, "B", c>> : l \in Listeners, c \in ConnIds}

VARIABLES
    command,       \* "port-forward" or "ssh": which command runs the Listeners
    nMappings,     \* number of Listeners the command starts
    local_addr,    \* [Listeners -> port]: requested local port, 0 = ephemeral
    pc,            \* [Listeners -> position of PortForwarder::run]
    actual_addr,   \* [Listeners -> port the OS bound, 0 = not bound]
    ready,         \* [Listeners -> [calls, addr]]: invocations of on_ready
    cancel_token,  \* [Listeners -> BOOLEAN]: the internal CancellationToken
    receiverDropped, \* [Listeners -> BOOLEAN]: event_receiver dropped
    events,        \* [Listeners -> Seq(Event)]: the unbounded mpsc channel
    join_set,      \* [Listeners -> SUBSET TaskIds]: tasks spawned, not yet joined
    task,          \* [TaskIds -> [st, outcome, produced, joined, how, by, remote, asked]]
    conn,          \* [Listeners \X ConnIds -> state of one result of accept()]
    result,        \* [Listeners -> result of PortForwarder::run]
    exitStatus,    \* [Listeners \cup {SshTask} -> ExitStatus given to sigfinn]
    shutdownFired, \* the shutdown_signal futures sigfinn hands out have completed
    interrupted,   \* an external interrupt (Ctrl+C) has been received
    completions,   \* Seq of <<task, ExitStatus>>: outcomes in production order
    seen,          \* supervised tasks whose outcome serve() has consumed
    firstError,    \* the task whose Error serve() recorded, or -1
    serveResult,   \* "none", "Ok" or "Err": what serve() returned
    cmdResult,     \* "none", "Ok" or "Err": what the command's run returned
    exitCode,      \* -1 while running, else the process exit code
    channel,       \* oneshot readiness channel: "unused","empty","value","closed"
    ssh,           \* [pc, shutdownCalls]: the ssh-client task
    wire,          \* [Directions -> bytes of one bridged connection under way]
    annot,         \* one pod's annotations written at creation and read back
    xfer,          \* one call of Session::upload or Session::download
    console,       \* one call of PodConsole::run or PodConsole::attach
    call           \* one call of Session::call

vars == <<command, nMappings, local_addr, pc, actual_addr, ready, cancel_token,
          receiverDropped, events, join_set, task, conn, result, exitStatus,
          shutdownFired, interrupted, completions, seen, firstError,
          serveResult, cmdResult, exitCode, channel, ssh, wire,
          annot, xfer, console, call>>

listenerVars == <<pc, actual_addr, ready, cancel_token, receiverDropped, events,
                  join_set, task, conn, result>>
supervisorVars == <<shutdownFired, interrupted, seen, firstError, serveResult>>
commandVars == <<cmdResult, exitCode>>
inputVars == <<command, nMappings, local_addr>>
callVars == <<annot, xfer, console, call>>

(* ------------------------------ helpers ------------------------------- *)
Active == 1..nMappings
NoTask == [st |-> "none", outcome |-> "none", produced |-> 0, joined |-> 0,
           how |-> "none", by |-> "none", remote |-> "none", asked |-> 0]
Accepted == Cardinality({x \in Listeners \X ConnIds : conn[x] # "none"})
ConnBudget == IF nMappings > 1 \/ command = "ssh" THEN MaxGroupConn ELSE MaxConn
AcceptedBy(l) == Cardinality({c \in ConnIds : conn[<<l, c>>] # "none"})
PendingReaps(l) ==
    Cardinality({i \in 1..Len(events[l]) : events[l][i].type = "ReapConnections"})
QueuedConns(l) ==
    {events[l][i].conn : i \in {j \in 1..Len(events[l]) :
                                   events[l][j].type = "NewConnection"}}

\* The two directions of a bridged connection: local to pod, pod to local.
Directions == {"up", "down"}

\* One direction: what the writing peer has yet to write (src), what it wrote
\* and copy_bidirectional has not read (pipe), whether it closed its side,
\* what the copy read and has not written (buf), what the other peer got
\* (dst), and the state of this direction of the copy.
Direction(payload) ==
    [src |-> payload, pipe |-> <<>>, closed |-> FALSE, buf |-> <<>>, dst |-> <<>>,
     st |-> "running"]

\* The bytes of a run in which no connection is followed byte by byte.
NoWire == [d \in Directions |-> Direction(<<>>)]

(* ---------------------- PortForwarder::run -------------------------- *)
\* Mutant: the background tasks are spawned before on_ready is called.
SetupOrderSpawnFirst == <<"bind", "local_addr", "spawn", "on_ready", "loop">>

\* The statements of run before the event loop, in program order.
SetupOrder == <<"bind", "local_addr", "on_ready", "spawn", "loop">>

After(p) == SetupOrder[(CHOOSE i \in 1..Len(SetupOrder) : SetupOrder[i] = p) + 1]

\* Mutant: the closure reports Success whatever run returned.
ExitStatusAlwaysSuccess(r) == "Success"

\* Result<(), Error> of run mapped to the ExitStatus given to sigfinn.
ExitStatusOf(r) == IF r = "Ok" THEN "Success" ELSE "Error"

\* run returns r: the wrapping closure turns it into the task's ExitStatus.
Return(l, r) ==
    /\ result' = [result EXCEPT ![l] = r]
    /\ exitStatus' = [exitStatus EXCEPT ![l] = ExitStatusOf(r)]
    /\ completions' = Append(completions, <<l, ExitStatusOf(r)>>)

\* Mutant: the sender outlives run (kept alive elsewhere), so nothing closes.
DropOnReadyLeaks(ch) == ch

\* The readiness sender lives in on_ready; dropping on_ready uncalled closes it.
DropOnReady(ch) == IF ch = "empty" THEN "closed" ELSE ch

\* Mutant: a failed bind is tried again.
BindErrorRetry == "bind"

\* Where run is after `?` met an error from bind or local_addr.
BindErrorPc == "returned"

\* What run does when bind or local_addr fails: `?` returns the error at once.
FailBind(l) ==
    /\ pc' = [pc EXCEPT ![l] = BindErrorPc]
    /\ Return(l, "ErrBind")
    /\ channel' = IF command = "ssh" THEN DropOnReady(channel) ELSE channel

\* TcpListener::bind(&local_addr).await
Bind(l) ==
    /\ l \in Active /\ pc[l] = "bind"
    /\ \/ /\ \E p \in (IF local_addr[l] = 0 THEN EphemeralPorts ELSE {local_addr[l]}) :
                actual_addr' = [actual_addr EXCEPT ![l] = p]
          /\ pc' = [pc EXCEPT ![l] = After("bind")]
          /\ UNCHANGED <<result, exitStatus, completions, channel>>
       \/ /\ FailBind(l)
          /\ UNCHANGED actual_addr
    /\ UNCHANGED <<ready, cancel_token, receiverDropped, events, join_set, task, conn>>
    /\ UNCHANGED <<inputVars, callVars, supervisorVars, commandVars, ssh, wire>>

\* listener.local_addr()
LocalAddr(l) ==
    /\ l \in Active /\ pc[l] = "local_addr"
    /\ \/ /\ pc' = [pc EXCEPT ![l] = After("local_addr")]
          /\ UNCHANGED <<result, exitStatus, completions, channel>>
       \/ FailBind(l)
    /\ UNCHANGED <<actual_addr, ready, cancel_token, receiverDropped, events,
                   join_set, task, conn>>
    /\ UNCHANGED <<inputVars, callVars, supervisorVars, commandVars, ssh, wire>>

\* Mutant: on_ready is given the requested address, not the bound one.
ReadyAddressRequested(l) == local_addr[l]

\* The address on_ready is called with.
ReadyAddress(l) == actual_addr[l]

\* if let Some(on_ready) = on_ready { on_ready(actual_addr) }
OnReady(l) ==
    /\ l \in Active /\ pc[l] = "on_ready"
    /\ ready' = [ready EXCEPT ![l] = [calls |-> @.calls + 1, addr |-> ReadyAddress(l)]]
    /\ channel' = IF command = "ssh" /\ channel = "empty" THEN "value" ELSE channel
    /\ pc' = [pc EXCEPT ![l] = After("on_ready")]
    /\ UNCHANGED <<actual_addr, cancel_token, receiverDropped, events, join_set,
                   task, conn, result, exitStatus, completions>>
    /\ UNCHANGED <<inputVars, callVars, supervisorVars, commandVars, ssh, wire>>

Running == [NoTask EXCEPT !.st = "run"]

\* The three join_set.spawn calls: shutdown watcher, accept task, reap task.
SpawnTasks(l) ==
    /\ l \in Active /\ pc[l] = "spawn"
    /\ task' = [t \in TaskIds |->
                   IF t[1] = l /\ t[2] \in Background THEN Running ELSE task[t]]
    /\ join_set' = [join_set EXCEPT ![l] = @ \cup {<<l, k, 0>> : k \in Background}]
    /\ pc' = [pc EXCEPT ![l] = After("spawn")]
    /\ UNCHANGED <<actual_addr, ready, cancel_token, receiverDropped, events, conn,
                   result, exitStatus, completions, channel>>
    /\ UNCHANGED <<inputVars, callVars, supervisorVars, commandVars, ssh, wire>>

(* ------------------- the tasks spawned by run ----------------------- *)
Ev(type, c) == [type |-> type, conn |-> c]

\* event_sender.send(e): fails, delivering nothing, once the receiver is dropped.
Send(l, e) == IF receiverDropped[l] THEN events[l] ELSE Append(events[l], e)

Finish(t, outcome, how) ==
    [task EXCEPT ![t] = [@ EXCEPT !.st = "done", !.outcome = outcome,
                                  !.produced = @ + 1, !.how = how]]

frameTask == <<inputVars, callVars, supervisorVars, commandVars, ssh, wire, pc, actual_addr,
               ready, result, exitStatus, completions, channel, join_set>>

\* Mutant: the watcher notifies twice, once for each thing it watches.
ShutdownSentTwice(l) == Send(l, Ev("Shutdown", 0)) \o <<Ev("Shutdown", 0)>>

\* What the watcher leaves in the channel: one Event::Shutdown, whichever
\* branch of its select! completed.
ShutdownSent(l) == Send(l, Ev("Shutdown", 0))

\* 1. Shutdown watcher: select! { shutdown_signal, token_shutdown.cancelled() },
\* either way sends Event::Shutdown (a send error is dropped) and returns Ok.
ShutdownWatcher(l) ==
    LET t == <<l, "W", 0>> IN
    /\ task[t].st = "run"
    /\ shutdownFired \/ cancel_token[l]
    /\ events' = [events EXCEPT ![l] = ShutdownSent(l)]
    /\ task' = Finish(t, "Ok", IF shutdownFired THEN "signal" ELSE "cancel")
    /\ UNCHANGED <<frameTask, cancel_token, receiverDropped, conn>>

\* 2. Accept task, the select! branch listener.accept() with Ok((stream, peer)):
\* sends Event::NewConnection, and breaks when the send fails. select! is not
\* biased, so this branch may win while the token is already cancelled.
AcceptConnection(l) ==
    LET t == <<l, "A", 0>>
        c == AcceptedBy(l) + 1 IN
    /\ task[t].st = "run"
    /\ Accepted < ConnBudget
    /\ IF receiverDropped[l]
       THEN /\ conn' = [conn EXCEPT ![<<l, c>>] = "closed"]
            /\ task' = Finish(t, "Ok", "send_failed")
            /\ UNCHANGED events
       ELSE /\ conn' = [conn EXCEPT ![<<l, c>>] = "queued"]
            /\ events' = [events EXCEPT ![l] = Send(l, Ev("NewConnection", c))]
            /\ UNCHANGED task
    /\ UNCHANGED <<frameTask, cancel_token, receiverDropped>>

\* 2. Accept task, the select! branch listener.accept() with Err(_): the
\* `if let Ok(..)` does not match, nothing is sent and the loop goes on.
AcceptError(l) ==
    LET t == <<l, "A", 0>>
        c == AcceptedBy(l) + 1 IN
    /\ task[t].st = "run"
    /\ Accepted < ConnBudget
    /\ conn' = [conn EXCEPT ![<<l, c>>] = "failed"]
    /\ UNCHANGED <<frameTask, cancel_token, receiverDropped, events, task>>

\* 2. Accept task, the select! branch token_accept.cancelled(): break, Ok(()).
AcceptCancelled(l) ==
    LET t == <<l, "A", 0>> IN
    /\ task[t].st = "run"
    /\ cancel_token[l]
    /\ task' = Finish(t, "Ok", "cancel")
    /\ UNCHANGED <<frameTask, cancel_token, receiverDropped, events, conn>>

\* 3. Reap task, the select! branch interval.tick(): sends
\* Event::ReapConnections, and breaks when the send fails.
ReapTick(l) ==
    LET t == <<l, "R", 0>> IN
    /\ task[t].st = "run"
    /\ PendingReaps(l) < MaxPendingReaps
    /\ IF receiverDropped[l]
       THEN /\ task' = Finish(t, "Ok", "send_failed")
            /\ UNCHANGED events
       ELSE /\ events' = [events EXCEPT ![l] = Send(l, Ev("ReapConnections", 0))]
            /\ UNCHANGED task
    /\ UNCHANGED <<frameTask, cancel_token, receiverDropped, conn>>

\* 3. Reap task, the select! branch token_reap.cancelled(): break, Ok(()).
ReapCancelled(l) ==
    LET t == <<l, "R", 0>> IN
    /\ task[t].st = "run"
    /\ cancel_token[l]
    /\ task' = Finish(t, "Ok", "cancel")
    /\ UNCHANGED <<frameTask, cancel_token, receiverDropped, events, conn>>

(* ------------------- ConnectionHandler::handle ---------------------- *)
\* Mutant: a failure to open the pod's stream is treated like a missing one.
HandleResultIgnoresOpenError(how) == "Ok"

\* The Result handle returns for each way it ends.
HandleResult(how) == IF how = "open_failed" THEN "Err" ELSE "Ok"

\* Mutant: a stream outlives the call of handle that owned it.
StreamLeaks(s) == s

\* handle owns local_stream (its argument) and pod_stream (a local): when it
\* returns, on whichever path, both are dropped, which closes them.
Dropped(s) == IF s \in {"bridged", "open"} THEN "closed" ELSE s

\* handle returns: its Result is the task's outcome, its streams are dropped.
HandleReturns(t, how) ==
    /\ task' = [Finish(t, HandleResult(how), how) EXCEPT ![t].remote = Dropped(@)]
    /\ conn' = [conn EXCEPT ![<<t[1], t[3]>>] = Dropped(@)]

\* Mutant: after an error handle calls portforward again.
OnOpenErrorRetry(t) ==
    /\ task[t].asked < 2
    /\ task' = [task EXCEPT ![t].asked = @ + 1]
    /\ UNCHANGED conn

\* Err(source) => return Err(CreatePodStream): the one call is not repeated.
OnOpenError(t) == HandleReturns(t, "open_failed")

\* handle begins with its one call of api.portforward (asked = 1 from the
\* spawn on); the call completes:
\* Ok(Some(s)) starts the copy, Ok(None) returns Ok(()), Err returns the error.
OpenStream(l, c) ==
    LET t == <<l, "B", c>> IN
    /\ task[t].st = "opening"
    /\ \/ /\ task' = [task EXCEPT ![t].st = "copying", ![t].remote = "open"]
          /\ UNCHANGED conn
       \/ HandleReturns(t, "no_stream")
       \/ OnOpenError(t)
    /\ UNCHANGED <<frameTask, cancel_token, receiverDropped, events>>

\* How copy_bidirectional can complete: Ok (both sides at end of stream) or
\* Err(e), e being a broken pipe / connection reset or any other I/O error.
CopyEndings == {"eof", "broken_pipe", "io_error"}

\* select! branch copy_bidirectional(..) completes; an Err is only logged.
CopyEnds(l, c) ==
    LET t == <<l, "B", c>> IN
    /\ task[t].st = "copying"
    /\ \E how \in CopyEndings : HandleReturns(t, how)
    /\ UNCHANGED <<frameTask, cancel_token, receiverDropped, events>>

\* Mutant: the select has a third branch, a timer that completes by itself.
CancelledOrTimedOut(l) == TRUE

\* cancel_token.cancelled() completes: the Listener's token is cancelled.
Cancelled(l) == cancel_token[l]

\* select! branch cancel_token.cancelled().
CopyCancelled(l, c) ==
    LET t == <<l, "B", c>> IN
    /\ task[t].st = "copying"
    /\ Cancelled(l)
    /\ HandleReturns(t, "cancel")
    /\ UNCHANGED <<frameTask, cancel_token, receiverDropped, events>>

(* ------- copy_bidirectional(&mut local_stream, &mut pod_stream) ------ *)
\* The connection followed byte by byte, and the task that bridges it.
BridgeConn == <<1, 1>>
BridgeTask == <<1, "B", 1>>

frameWire == <<inputVars, callVars, listenerVars, supervisorVars, commandVars, exitStatus,
               completions, channel, ssh>>

\* The end of the peer that writes in direction d is connected: the local
\* socket from accept() on, the pod's end once the stream is open.
PeerOpen(d) ==
    IF d = "up" THEN conn[BridgeConn] = "bridged" ELSE task[BridgeTask].remote = "open"

\* The writing peer writes its next byte.
PeerWrites(d) ==
    /\ PeerOpen(d) /\ wire[d].src # <<>>
    /\ wire' = [wire EXCEPT ![d].pipe = Append(@, Head(wire[d].src)),
                            ![d].src = Tail(@)]
    /\ UNCHANGED frameWire

\* The writing peer, having written everything, closes its side.
PeerCloses(d) ==
    /\ PeerOpen(d) /\ wire[d].src = <<>> /\ ~wire[d].closed
    /\ wire' = [wire EXCEPT ![d].closed = TRUE]
    /\ UNCHANGED frameWire

Copying(d) == task[BridgeTask].st = "copying" /\ wire[d].st = "running"

\* The copy reads some of the bytes that have arrived on the reading side.
CopyReads(d) ==
    /\ Copying(d) /\ wire[d].pipe # <<>>
    /\ \E k \in 1..Len(wire[d].pipe) :
          wire' = [wire EXCEPT ![d].buf = @ \o SubSeq(wire[d].pipe, 1, k),
                                  ![d].pipe = SubSeq(@, k + 1, Len(@))]
    /\ UNCHANGED frameWire

\* The copy writes some of the bytes it holds to the other side.
CopyWrites(d) ==
    /\ Copying(d) /\ wire[d].buf # <<>>
    /\ \E k \in 1..Len(wire[d].buf) :
          wire' = [wire EXCEPT ![d].dst = @ \o SubSeq(wire[d].buf, 1, k),
                                  ![d].buf = SubSeq(@, k + 1, Len(@))]
    /\ UNCHANGED frameWire

\* The copy reads end of stream, has written all it read, and shuts down the
\* writing side: this direction is done, the other one goes on.
CopyShutdown(d) ==
    /\ Copying(d) /\ wire[d].pipe = <<>> /\ wire[d].closed /\ wire[d].buf = <<>>
    /\ wire' = [wire EXCEPT ![d].st = "done"]
    /\ UNCHANGED frameWire

\* Mutant: the copy returns as soon as one direction is done (a select! over
\* two one-way copies).
CopyCompleteEither == \E d \in Directions : wire[d].st = "done"

\* copy_bidirectional returns Ok once both directions are done.
CopyComplete == \A d \in Directions : wire[d].st = "done"

\* select! branch copy_bidirectional(..) completes with Ok(_).
CopyCompletes ==
    /\ task[BridgeTask].st = "copying"
    /\ CopyComplete
    /\ HandleReturns(BridgeTask, "eof")
    /\ UNCHANGED <<frameTask, cancel_token, receiverDropped, events>>

\* select! branch copy_bidirectional(..) completes with Err(e): an I/O
\* operation on either stream failed; the error is only logged.
CopyFails ==
    /\ task[BridgeTask].st = "copying"
    /\ \E how \in CopyEndings \ {"eof"} : HandleReturns(BridgeTask, how)
    /\ UNCHANGED <<frameTask, cancel_token, receiverDropped, events>>

(* ------------------ the event loop and the cleanup ------------------ *)
frameMain == <<inputVars, callVars, supervisorVars, commandVars, ssh, wire, actual_addr,
               ready, channel>>

\* The tasks of join_set that have completed: what try_join_next/join_next yield.
Completed(l) == {t \in join_set[l] : task[t].st = "done"}

Joined(ts, by) ==
    [t \in TaskIds |->
        IF t \in ts THEN [task[t] EXCEPT !.joined = @ + 1, !.by = by] ELSE task[t]]

\* Mutant: the pass drains the JoinSet, running tasks included.
ReapedAll(l) == join_set[l]

\* The tasks one ReapConnections pass takes out of join_set:
\* while let Some(result) = join_set.try_join_next() { .. }
Reaped(l) == Completed(l)

\* Mutant: recv() hands out the first event and leaves it in the channel.
ReceivedPeek(q) == q

\* event_receiver.recv().await takes the first event out of the channel.
Received(q) == Tail(q)

\* Mutant: the loop also waits for the bridges it spawned to finish.
LoopReadyAfterBridges(l) ==
    events[l] # <<>> /\ \A t \in join_set[l] : t[2] = "B" => task[t].st = "done"

\* while let Some(event) = event_receiver.recv().await: the loop waits for
\* an event and for nothing else.
LoopReady(l) == events[l] # <<>>

\* Mutant: the token is left as it is.
CancelForgotten(token) == token

\* cancel_token.cancel()
Cancel(token) == TRUE

\* Mutant: no break, the loop goes on after Event::Shutdown.
AfterShutdownContinues == "loop"

\* break: after Event::Shutdown run leaves the loop for the cleanup phase.
AfterShutdown == "drop_receiver"

\* Event::Shutdown => { cancel_token.cancel(); break; }
OnShutdown(l) ==
    /\ pc[l] = "loop" /\ LoopReady(l) /\ Head(events[l]).type = "Shutdown"
    /\ events' = [events EXCEPT ![l] = Received(@)]
    /\ cancel_token' = [cancel_token EXCEPT ![l] = Cancel(@)]
    /\ pc' = [pc EXCEPT ![l] = AfterShutdown]
    /\ UNCHANGED <<frameMain, receiverDropped, join_set, task, conn, result,
                   exitStatus, completions>>

\* Mutant: a reap pass that takes a finished bridge shuts the Listener down.
TokenAfterReapOnBridgeEnd(l) == cancel_token[l] \/ \E t \in Completed(l) : t[2] = "B"

\* Mutant: a reaped connection error cancels the token (fail-fast on a bridge).
TokenAfterReapFailFast(l) ==
    cancel_token[l] \/ \E t \in join_set[l] : task[t].outcome = "Err"

\* if let Ok(Err(e)) = result { tracing::error!(..) }: a reaped error is logged,
\* and the token stays as it is.
TokenAfterReap(l) == cancel_token[l]

\* Event::ReapConnections => drain the completed tasks, logging Ok(Err(e)).
OnReapConnections(l) ==
    /\ pc[l] = "loop" /\ LoopReady(l)
    /\ Head(events[l]).type = "ReapConnections"
    /\ events' = [events EXCEPT ![l] = Received(@)]
    /\ task' = Joined(Reaped(l), "reap")
    /\ join_set' = [join_set EXCEPT ![l] = @ \ Reaped(l)]
    /\ cancel_token' = [cancel_token EXCEPT ![l] = TokenAfterReap(l)]
    /\ UNCHANGED <<frameMain, pc, receiverDropped, conn, result,
                   exitStatus, completions>>

\* Event::NewConnection => join_set.spawn(handler.create().handle(stream, peer))
OnNewConnection(l) ==
    /\ pc[l] = "loop" /\ LoopReady(l)
    /\ Head(events[l]).type = "NewConnection"
    /\ LET c == Head(events[l]).conn
           t == <<l, "B", c>> IN
       /\ events' = [events EXCEPT ![l] = Received(@)]
       /\ task' = [task EXCEPT ![t] = [NoTask EXCEPT !.st = "opening", !.asked = 1]]
       /\ join_set' = [join_set EXCEPT ![l] = @ \cup {t}]
       /\ conn' = [conn EXCEPT ![<<l, c>>] = "bridged"]
    /\ UNCHANGED <<frameMain, pc, cancel_token, receiverDropped, result,
                   exitStatus, completions>>

\* drop(event_receiver): the events still queued are dropped with it, and with
\* them the TcpStreams of the NewConnection events nobody received.
DropReceiver(l) ==
    /\ pc[l] = "drop_receiver"
    /\ receiverDropped' = [receiverDropped EXCEPT ![l] = TRUE]
    /\ conn' = [x \in DOMAIN conn |->
                   IF x[1] = l /\ x[2] \in QueuedConns(l) THEN "closed" ELSE conn[x]]
    /\ events' = [events EXCEPT ![l] = <<>>]
    /\ pc' = [pc EXCEPT ![l] = "join"]
    /\ UNCHANGED <<frameMain, cancel_token, join_set, task, result, exitStatus,
                   completions>>

\* while let Some(result) = join_set.join_next().await { .. }: one iteration.
JoinNext(l, t) ==
    /\ pc[l] = "join"
    /\ t \in Completed(l)
    /\ task' = Joined({t}, "join")
    /\ join_set' = [join_set EXCEPT ![l] = @ \ {t}]
    /\ UNCHANGED <<frameMain, pc, cancel_token, receiverDropped, events, conn,
                   result, exitStatus, completions>>

\* Mutant: the cleanup loop is left while tasks are still in the JoinSet.
CleanupSkipped(l) == TRUE

\* join_next() yields None exactly when the JoinSet is empty.
CleanupDone(l) == join_set[l] = {}

\* Mutant: the cleanup phase returns the error of a failed connection.
FinalResultPropagates(l) ==
    IF \E t \in TaskIds : t[1] = l /\ task[t].outcome = "Err" THEN "ErrBind" ELSE "Ok"

\* What run returns after the cleanup phase.
FinalResult(l) == "Ok"

RunReturns(l) ==
    /\ pc[l] = "join"
    /\ CleanupDone(l)
    /\ pc' = [pc EXCEPT ![l] = "returned"]
    /\ Return(l, FinalResult(l))
    /\ UNCHANGED <<frameMain, cancel_token, receiverDropped, events, join_set, task,
                   conn>>

(* ---------------- sigfinn LifecycleManager (the Supervisor) --------- *)
frameSup == <<inputVars, callVars, listenerVars, commandVars, exitStatus, completions,
              channel, ssh, wire>>

Supervised == Active \cup (IF command = "ssh" THEN {SshTask} ELSE {})

\* An external interrupt arrives while serve() runs: cancellation is triggered.
Interrupt ==
    /\ nMappings > 0 /\ serveResult = "none" /\ ~interrupted
    /\ interrupted' = TRUE
    /\ shutdownFired' = TRUE
    /\ UNCHANGED <<frameSup, seen, firstError, serveResult>>

\* serve() takes the next task outcome, in the order the outcomes were
\* produced; an Error outcome is recorded if it is the first and triggers
\* the shared cancellation.
ServeTakesOutcome ==
    /\ serveResult = "none"
    /\ Cardinality(seen) < Len(completions)
    /\ LET o == completions[Cardinality(seen) + 1] IN
       /\ seen' = seen \cup {o[1]}
       /\ firstError' = IF o[2] = "Error" /\ firstError = -1 THEN o[1] ELSE firstError
       /\ shutdownFired' = (shutdownFired \/ o[2] = "Error")
    /\ UNCHANGED <<frameSup, interrupted, serveResult>>

\* serve() returns once every task has finished: the first Error, else success.
ServeReturns ==
    /\ nMappings > 0 /\ serveResult = "none"
    /\ seen = Supervised
    /\ serveResult' = IF firstError = -1 THEN "Ok" ELSE "Err"
    /\ UNCHANGED <<frameSup, shutdownFired, interrupted, seen, firstError>>

(* -------------------- the commands and main ------------------------- *)
\* Mutant: the command drops the error serve() returned.
CommandSwallowsError(served) == "Ok"

\* if let Ok(Err(err)) = lifecycle_manager.serve().await { Err(err) } else { Ok(()) }
CommandResult(served) == IF served = "Err" THEN "Err" ELSE "Ok"

\* main: Ok(exit_code) exits with the code (0 for a command), Err exits 1.
ExitCodeOf(r) == IF r = "Ok" THEN 0 ELSE 1

CommandReturns ==
    /\ serveResult # "none" /\ cmdResult = "none"
    /\ cmdResult' = CommandResult(serveResult)
    /\ exitCode' = ExitCodeOf(CommandResult(serveResult))
    /\ UNCHANGED <<inputVars, callVars, listenerVars, supervisorVars, exitStatus, completions,
                   channel, ssh, wire>>

\* PortForwardCommand::run: if port_mappings.is_empty() { return Ok(()); }
NoPortMappings ==
    /\ command = "port-forward" /\ nMappings = 0 /\ cmdResult = "none"
    /\ cmdResult' = "Ok"
    /\ exitCode' = ExitCodeOf("Ok")
    /\ UNCHANGED <<inputVars, callVars, listenerVars, supervisorVars, exitStatus, completions,
                   channel, ssh, wire>>

(* ----------------------- the ssh-client task ------------------------ *)
frameSsh == <<inputVars, callVars, listenerVars, commandVars, interrupted, seen, firstError,
              serveResult, wire>>

\* The ssh-client task ends with status st; when the HandleGuard exists
\* (guarded), its drop calls handle.shutdown().
SshExit(st, guarded) ==
    /\ ssh' = [ssh EXCEPT !.pc = "done",
                          !.shutdownCalls = IF guarded THEN @ + 1 ELSE @]
    /\ shutdownFired' = (shutdownFired \/ guarded)
    /\ exitStatus' = [exitStatus EXCEPT ![SshTask] = st]
    /\ completions' = Append(completions, <<SshTask, st>>)

\* ssh_local_socket_addr_receiver.await: Ok(a) goes on, Err(_) is an Error.
SshAwaitAddress ==
    /\ ssh.pc = "await_addr"
    /\ \/ /\ channel = "value"
          /\ channel' = "received"
          /\ ssh' = [ssh EXCEPT !.pc = "connect"]
          /\ UNCHANGED <<shutdownFired, exitStatus, completions>>
       \/ /\ channel = "closed"
          /\ SshExit("Error", FALSE)
          /\ UNCHANGED channel
    /\ UNCHANGED frameSsh

\* SshClientRunner::run up to session.call: connect, then raw mode; `?` on each.
SshSetup ==
    /\ ssh.pc \in {"connect", "raw_mode"}
    /\ \/ /\ ssh' = [ssh EXCEPT !.pc = IF @ = "connect" THEN "raw_mode" ELSE "call"]
          /\ UNCHANGED <<shutdownFired, exitStatus, completions>>
       \/ SshExit("Error", TRUE)
    /\ UNCHANGED <<frameSsh, channel>>

\* session.call(..).await, then session.close().await, then the result:
\* the call's error if any, else the close's.
SshCallAndClose ==
    /\ ssh.pc = "call"
    /\ \E callOk \in BOOLEAN, closeOk \in BOOLEAN :
          SshExit(IF callOk /\ closeOk THEN "Success" ELSE "Error", TRUE)
    /\ UNCHANGED <<frameSsh, channel>>

(* ---------------------- annotations of a pod -------------------------- *)
\* Everything below leaves the tunnel alone.
tunnelVars == <<inputVars, listenerVars, supervisorVars, commandVars, exitStatus,
                completions, channel, ssh, wire>>

\* A string is the sequence of its pieces: one character, or a run of
\* characters that no function here looks inside (a prefix, an address
\* group, a suffix word).
SHELL_INTERACTIVE == <<"axon.shell", "/", "interactive">>
PORT_MAPPINGS_PREFIX == <<"axon.port-mappings">>
SERVICE_PORT_PREFIX == <<"axon.service-port">>
VERSION == <<"axon.version">>

U16Max == 65535
Digit == <<"0", "1", "2", "3", "4", "5", "6", "7", "8", "9">>
DigitChars == {Digit[i] : i \in DOMAIN Digit}
DigitValue(c) == (CHOOSE i \in DOMAIN Digit : Digit[i] = c) - 1

\* format!("{n}") of a u16: its decimal digits.
RECURSIVE Decimal(_)
Decimal(n) ==
    IF n < Len(Digit) THEN <<Digit[n + 1]>>
    ELSE Decimal(n \div Len(Digit)) \o <<Digit[(n % Len(Digit)) + 1]>>

RECURSIVE DecimalValue(_)
DecimalValue(s) ==
    IF s = <<>> THEN 0
    ELSE Len(Digit) * DecimalValue(SubSeq(s, 1, Len(s) - 1)) + DigitValue(s[Len(s)])

\* An Option is a sequence of at most one value.
None == <<>>
Some(x) == <<x>>

\* str::parse::<u16>: digits only, at least one, and the value fits.
ParseU16(s) ==
    IF /\ s # <<>>
       /\ \A i \in 1..Len(s) : s[i] \in DigitChars
       /\ DecimalValue(s) <= U16Max
    THEN Some(DecimalValue(s)) ELSE None

\* IpAddr values, each with the text its Display writes.
Ipv4Addrs == {[v6 |-> FALSE, text |-> <<"127.0.0.1">>]}
Ipv6Addrs == {[v6 |-> TRUE, text |-> <<":", ":", "1">>],
              [v6 |-> TRUE, text |-> <<"2001", ":", "db8", ":", ":", "1">>]}
IpAddrs == Ipv4Addrs \cup Ipv6Addrs
DisplayIp(a) == a.text
ParseIp(family, s) ==
    IF \E a \in family : a.text = s
    THEN Some(CHOOSE a \in family : a.text = s) ELSE None

\* str::parse::<SocketAddr>: "v4:port", or "[v6]:port" with the brackets.
ParseSocketAddrV4(s) ==
    LET cuts == {i \in 1..Len(s) :
                    /\ s[i] = ":"
                    /\ ParseIp(Ipv4Addrs, SubSeq(s, 1, i - 1)) # None
                    /\ ParseU16(SubSeq(s, i + 1, Len(s))) # None}
    IN  IF cuts = {} THEN None
        ELSE LET i == CHOOSE i \in cuts : TRUE
             IN  Some([ip |-> ParseIp(Ipv4Addrs, SubSeq(s, 1, i - 1))[1],
                       port |-> ParseU16(SubSeq(s, i + 1, Len(s)))[1]])

ParseSocketAddrV6(s) ==
    LET cuts == {i \in 2..(Len(s) - 1) :
                    /\ s[1] = "["
                    /\ s[i] = "]"
                    /\ s[i + 1] = ":"
                    /\ ParseIp(Ipv6Addrs, SubSeq(s, 2, i - 1)) # None
                    /\ ParseU16(SubSeq(s, i + 2, Len(s))) # None}
    IN  IF cuts = {} THEN None
        ELSE LET i == CHOOSE i \in cuts : TRUE
             IN  Some([ip |-> ParseIp(Ipv6Addrs, SubSeq(s, 2, i - 1))[1],
                       port |-> ParseU16(SubSeq(s, i + 2, Len(s)))[1]])

ParseSocketAddr(s) ==
    IF ParseSocketAddrV4(s) # None THEN ParseSocketAddrV4(s) ELSE ParseSocketAddrV6(s)

\* A Result: Ok(v) or Err(v).
OkOf(x) == [ok |-> TRUE, v |-> x]
ErrOf(e) == [ok |-> FALSE, v |-> e]

\* key.split('/').next_back(): what follows the last '/'.
LastSegment(s) ==
    LET slashes == {i \in 1..Len(s) : s[i] = "/"}
        k == IF slashes = {} THEN 0
             ELSE CHOOSE i \in slashes : \A j \in slashes : j <= i
    IN  SubSeq(s, k + 1, Len(s))

\* PortMapping::to_kubernetes_annotation: <<key, value>>.
PortMappingToAnnotation(m) ==
    << PORT_MAPPINGS_PREFIX \o <<"/">> \o Decimal(m.container_port),
       DisplayIp(m.address) \o <<":">> \o Decimal(m.local_port) >>

\* PortMapping::try_from_kubernetes_annotation.
TryFromAnnotation(key, value) ==
    LET container_port == ParseU16(LastSegment(key))
        socket_addr == ParseSocketAddr(value)
    IN  IF container_port = None THEN ErrOf("InvalidPort")
        ELSE IF socket_addr = None THEN ErrOf("InvalidFormat")
        ELSE OkOf([container_port |-> container_port[1],
                   local_port |-> socket_addr[1].port,
                   address |-> socket_addr[1].ip])

\* ServicePorts::default().
DefaultServicePorts == [ssh |-> None, http |-> None, https |-> None]

\* A merge that keeps only what the other side holds.
MergeOverwrites(acc, other) == other

\* ServicePorts::merge: a port the other side has replaces this side's.
Merge(acc, other) ==
    [ssh |-> IF other.ssh # None THEN other.ssh ELSE acc.ssh,
     http |-> IF other.http # None THEN other.http ELSE acc.http,
     https |-> IF other.https # None THEN other.https ELSE acc.https]

\* ServicePorts::from_kubernetes_annotation: one annotation.
FromAnnotation(key, value) ==
    LET prefix == SERVICE_PORT_PREFIX \o <<"/">>
        stripped == Len(key) >= Len(prefix) /\ SubSeq(key, 1, Len(prefix)) = prefix
        suffix == SubSeq(key, Len(prefix) + 1, Len(key))
        port == ParseU16(value)
    IN  IF stripped /\ port # None
        THEN IF suffix = <<"ssh">> THEN [DefaultServicePorts EXCEPT !.ssh = port]
             ELSE IF suffix = <<"http">> THEN [DefaultServicePorts EXCEPT !.http = port]
             ELSE IF suffix = <<"https">> THEN [DefaultServicePorts EXCEPT !.https = port]
             ELSE DefaultServicePorts
        ELSE DefaultServicePorts

\* ServicePorts::from_kubernetes_annotations: the fold over the annotations
\* in the order the iterator yields them.
RECURSIVE FromAnnotations(_)
FromAnnotations(iter) ==
    IF iter = <<>> THEN DefaultServicePorts
    ELSE LET last == iter[Len(iter)]
         IN  Merge(FromAnnotations(SubSeq(iter, 1, Len(iter) - 1)),
                   FromAnnotation(last[1], last[2]))

\* ServicePorts::to_kubernetes_annotation: one pair per port that is set.
ServicePortsToAnnotation(p) ==
    LET prefix == SERVICE_PORT_PREFIX
        one(name, port) ==
            IF port # None THEN << <<prefix \o <<"/", name>>, Decimal(port[1])>> >>
            ELSE <<>>
    IN  one("ssh", p.ssh) \o one("http", p.http) \o one("https", p.https)

\* collect::<BTreeMap<_, _>>(): of two pairs with one key the later stays.
Collect(pairs) ==
    {pairs[i] : i \in {i \in 1..Len(pairs) :
                          \A j \in (i + 1)..Len(pairs) : pairs[j][1] # pairs[i][1]}}

\* The annotations build_pod puts on a new pod.
PodAnnotations(port_mappings, service_ports) ==
    Collect(<< <<SHELL_INTERACTIVE, <<"shell_json">> >>,
               <<VERSION, <<"PROJECT_VERSION">> >> >>
            \o [i \in 1..Len(port_mappings) |-> PortMappingToAnnotation(port_mappings[i])]
            \o ServicePortsToAnnotation(service_ports))

\* An iteration of the annotation map.
RECURSIVE IterOf(_)
IterOf(annotations) ==
    IF annotations = {} THEN <<>>
    ELSE LET kv == CHOOSE kv \in annotations : TRUE
         IN  <<kv>> \o IterOf(annotations \ {kv})

\* PodExt::port_mappings: the annotations that parse as a PortMapping.
PodPortMappings(annotations) ==
    {TryFromAnnotation(kv[1], kv[2]).v :
        kv \in {kv \in annotations : TryFromAnnotation(kv[1], kv[2]).ok}}

\* PodExt::service_ports.
PodServicePorts(annotations) == FromAnnotations(IterOf(annotations))

ServicePortSamples == {22, 65535}
LocalPortSamples == {0, 8080}
ContainerPortSamples == {80, 65535}
Ports(samples) == {None} \cup {Some(p) : p \in samples}
ServicePortsValues ==
    [ssh : Ports(ServicePortSamples), http : Ports(ServicePortSamples),
     https : Ports(ServicePortSamples)]
PortMappingValues ==
    [container_port : ContainerPortSamples, local_port : LocalPortSamples,
     address : IpAddrs]

NoAnnot ==
    [on |-> FALSE, done |-> {}, service_ports |-> DefaultServicePorts,
     port_mappings |-> <<>>, kv |-> <<>>, recovered |-> DefaultServicePorts,
     pair |-> <<>>, parsed |-> <<>>, annotations |-> {}, mappings |-> {},
     ports |-> DefaultServicePorts]

AnnotStep(name, before) ==
    /\ annot.on
    /\ name \notin annot.done
    /\ before \subseteq annot.done

\* p.to_kubernetes_annotation()
WriteServicePorts ==
    /\ AnnotStep("sp_to", {})
    /\ annot' = [annot EXCEPT !.done = @ \cup {"sp_to"},
                              !.kv = ServicePortsToAnnotation(annot.service_ports)]
    /\ UNCHANGED <<tunnelVars, xfer, console, call>>

\* ServicePorts::from_kubernetes_annotations(kv)
ReadServicePorts ==
    /\ AnnotStep("sp_from", {"sp_to"})
    /\ annot' = [annot EXCEPT !.done = @ \cup {"sp_from"},
                              !.recovered = FromAnnotations(annot.kv)]
    /\ UNCHANGED <<tunnelVars, xfer, console, call>>

\* m.to_kubernetes_annotation()
WritePortMapping ==
    /\ AnnotStep("pm_to", {})
    /\ annot.port_mappings # <<>>
    /\ annot' = [annot EXCEPT !.done = @ \cup {"pm_to"},
                              !.pair = PortMappingToAnnotation(annot.port_mappings[1])]
    /\ UNCHANGED <<tunnelVars, xfer, console, call>>

\* PortMapping::try_from_kubernetes_annotation(key, value)
ReadPortMapping ==
    /\ AnnotStep("pm_from", {"pm_to"})
    /\ annot' = [annot EXCEPT !.done = @ \cup {"pm_from"},
                              !.parsed = <<TryFromAnnotation(annot.pair[1], annot.pair[2])>>]
    /\ UNCHANGED <<tunnelVars, xfer, console, call>>

\* build_pod: the pod is created with its annotations.
CreatePod ==
    /\ AnnotStep("create", {})
    /\ annot' = [annot EXCEPT !.done = @ \cup {"create"},
                              !.annotations = PodAnnotations(annot.port_mappings,
                                                             annot.service_ports)]
    /\ UNCHANGED <<tunnelVars, xfer, console, call>>

\* pod.port_mappings(): one Listener is started per mapping it returns.
ReadPodPortMappings ==
    /\ AnnotStep("port_mappings", {"create"})
    /\ annot' = [annot EXCEPT !.done = @ \cup {"port_mappings"},
                              !.mappings = PodPortMappings(annot.annotations)]
    /\ UNCHANGED <<tunnelVars, xfer, console, call>>

\* pod.service_ports()
ReadPodServicePorts ==
    /\ AnnotStep("service_ports", {"create"})
    /\ annot' = [annot EXCEPT !.done = @ \cup {"service_ports"},
                              !.ports = PodServicePorts(annot.annotations)]
    /\ UNCHANGED <<tunnelVars, xfer, console, call>>

(* ------------------ Session::upload and download ---------------------- *)
Ops == {"upload", "download"}
OpenErrors == {"OpenLocalFile", "OpenSftp", "OpenSftpSession", "OpenRemoteFile"}
NoResult == [kind |-> "none", n |-> 0]
NoXfer ==
    [op |-> "none", has_signal |-> FALSE, len |-> 0, pc |-> "idle", copied |-> 0,
     io |-> "idle", fired |-> FALSE, early |-> FALSE, result |-> NoResult]

\* The files and the sftp session are opened; each step may fail with its error.
OpenFiles ==
    /\ xfer.pc = "open"
    /\ \/ xfer' = [xfer EXCEPT !.pc = "copy"]
       \/ \E e \in OpenErrors :
             xfer' = [xfer EXCEPT !.pc = "done", !.result = [kind |-> e, n |-> 0]]
    /\ UNCHANGED <<tunnelVars, annot, console, call>>

\* tokio::io::copy is complete at its next poll: the read that met the end of
\* the file has returned, or a read or write has failed.
CopyReady(x) == x.io = "failed" \/ (x.io = "ready" /\ x.copied = x.len)

\* What one poll of the copy leaves when it is not complete: the chunk that
\* has arrived is counted and the next read is started.
CopyPolled(x) ==
    IF x.io = "idle" THEN [x EXCEPT !.io = "pending"]
    ELSE IF x.io = "ready" /\ x.copied < x.len
         THEN [x EXCEPT !.copied = @ + 1, !.io = "pending"]
    ELSE x

\* A select that asks the signal first.
SelectSignalFirst(copy_ready, sig_ready) ==
    IF sig_ready THEN "Right" ELSE IF copy_ready THEN "Left" ELSE "Pending"

\* future::select(copy_task, sig): one poll asks the copy, and the signal
\* only when the copy is pending.
Select(copy_ready, sig_ready) ==
    IF copy_ready THEN "Left" ELSE IF sig_ready THEN "Right" ELSE "Pending"

\* cancel_signal = None: copy_task.await.
AwaitCopy(copy_ready) == IF copy_ready THEN "Left" ELSE "Pending"

\* One poll of the call while it waits for the copy.
PollCopy ==
    /\ xfer.pc = "copy"
    /\ LET sel == IF xfer.has_signal THEN Select(CopyReady(xfer), xfer.fired)
                  ELSE AwaitCopy(CopyReady(xfer))
           polled == CopyPolled(xfer)
       IN  \/ /\ sel = "Left"
              /\ xfer' = IF xfer.io = "failed"
                         THEN [xfer EXCEPT !.pc = "done",
                                           !.result = [kind |-> "TransferData", n |-> 0]]
                         ELSE [xfer EXCEPT !.pc = "shutdown"]
           \/ /\ sel = "Right"
              /\ xfer' = [polled EXCEPT !.pc = "done",
                                        !.result = [kind |-> "Cancelled", n |-> 0]]
           \/ /\ sel = "Pending"
              /\ polled # xfer
              /\ xfer' = polled
    /\ UNCHANGED <<tunnelVars, annot, console, call>>

\* The read or write the copy waits for completes, well or not.
IoCompletes ==
    /\ xfer.pc = "copy" /\ xfer.io = "pending"
    /\ \E how \in {"ready", "failed"} : xfer' = [xfer EXCEPT !.io = how]
    /\ UNCHANGED <<tunnelVars, annot, console, call>>

\* The cancel signal completes; early records that the copy was not complete.
SignalCompletes ==
    /\ xfer.has_signal /\ ~xfer.fired
    /\ xfer.pc \in {"open", "copy", "shutdown"}
    /\ xfer' = [xfer EXCEPT !.fired = TRUE,
                            !.early = xfer.pc \in {"open", "copy"} /\ ~CopyReady(xfer)]
    /\ UNCHANGED <<tunnelVars, annot, console, call>>

\* file.shutdown().await.ok(); Ok(n)
ShutdownFile ==
    /\ xfer.pc = "shutdown"
    /\ xfer' = [xfer EXCEPT !.pc = "done",
                            !.result = [kind |-> "bytes", n |-> xfer.copied]]
    /\ UNCHANGED <<tunnelVars, annot, console, call>>

XferStep == OpenFiles \/ PollCopy \/ IoCompletes \/ SignalCompletes \/ ShutdownFile

XferCalls ==
    {[NoXfer EXCEPT !.op = op, !.has_signal = s, !.len = n, !.pc = "open"] :
        op \in Ops, s \in BOOLEAN, n \in 0..MaxChunks}

(* ----------------- PodConsole::run and attach ------------------------- *)
Consoles == {"run", "attach"}
NoConsole ==
    [fn |-> "none", pc |-> "idle", handle |-> "idle", cancelled |-> FALSE,
     piped |-> 0, branch |-> "none", awaited |-> 0, result |-> "none"]

\* What polling a JoinHandle again after it has yielded its result may do:
\* the Future contract allows a panic or a wait that never ends.
PolledAfterCompletion == {"panic", "blocked"}

\* handle_terminal_size returns: on its own (the terminal size cannot be read,
\* the size channel is closed, the SIGWINCH stream ends) or on cancellation.
TerminalSizeEnds ==
    /\ console.handle = "running"
    /\ console' = [console EXCEPT !.handle = "finished"]
    /\ UNCHANGED <<tunnelVars, annot, xfer, call>>

\* run, after the spawn: the pod's stdout and stdin are taken and the local
\* stdin and stdout are wrapped; each `?` returns its error at once.
ConsoleSetup ==
    /\ console.pc = "setup"
    /\ \/ console' = [console EXCEPT !.pc = "select"]
       \/ console' = [console EXCEPT !.pc = "done", !.result = "Err"]
    /\ UNCHANGED <<tunnelVars, annot, xfer, call>>

\* select!: bytes are read on one side and written to the other; a write
\* that fails returns its error at once.
SelectPipes ==
    /\ console.pc = "select" /\ console.piped < MaxBytes
    /\ \/ console' = [console EXCEPT !.piped = @ + 1]
       \/ console' = [console EXCEPT !.pc = "done", !.result = "Err"]
    /\ UNCHANGED <<tunnelVars, annot, xfer, call>>

\* select!: the pod closes the connection, or a side reaches its end.
SelectCloses ==
    /\ console.pc = "select"
    /\ console' = [console EXCEPT !.pc = "cleanup", !.branch = "closed"]
    /\ UNCHANGED <<tunnelVars, annot, xfer, call>>

\* select!: the branch `&mut terminal_size_handle` yields the task's result.
SelectTakesHandle ==
    /\ console.pc = "select" /\ console.handle = "finished"
    /\ console' = [console EXCEPT !.pc = "cleanup", !.branch = "handle",
                                  !.handle = "consumed"]
    /\ UNCHANGED <<tunnelVars, annot, xfer, call>>

\* cancel_token.cancel()
CancelTerminalSize ==
    /\ console.pc = "cleanup"
    /\ console' = [console EXCEPT !.pc = "await_handle", !.cancelled = TRUE]
    /\ UNCHANGED <<tunnelVars, annot, xfer, call>>

\* After the handle has been awaited: run returns, attach joins the pod first.
AfterHandle(c) == IF c.fn = "attach" THEN "join" ELSE "return"

\* terminal_size_handle.await
AwaitHandle ==
    /\ console.pc = "await_handle"
    /\ \/ /\ console.handle = "finished"
          /\ console' = [console EXCEPT !.pc = AfterHandle(console),
                                        !.handle = "consumed", !.awaited = @ + 1]
       \/ /\ console.handle = "consumed"
          /\ \E how \in PolledAfterCompletion :
                console' = [console EXCEPT !.pc = "done", !.awaited = @ + 1,
                                           !.result = how]
    /\ UNCHANGED <<tunnelVars, annot, xfer, call>>

\* attached.join().await
JoinAttached ==
    /\ console.pc = "join"
    /\ console' = [console EXCEPT !.pc = "return"]
    /\ UNCHANGED <<tunnelVars, annot, xfer, call>>

\* Ok(())
ConsoleReturns ==
    /\ console.pc = "return"
    /\ console' = [console EXCEPT !.pc = "done", !.result = "Ok"]
    /\ UNCHANGED <<tunnelVars, annot, xfer, call>>

ConsoleStep ==
    \/ TerminalSizeEnds \/ ConsoleSetup \/ SelectPipes \/ SelectCloses
    \/ SelectTakesHandle
    \/ CancelTerminalSize \/ AwaitHandle \/ JoinAttached \/ ConsoleReturns

\* Where the call is once the terminal-size task is spawned: attach has
\* taken the pod's streams before the spawn, run takes them after it.
AfterSpawn(f) == IF f = "run" THEN "setup" ELSE "select"

\* The call has just spawned the terminal-size task.
ConsoleCalls ==
    {[NoConsole EXCEPT !.fn = f, !.pc = AfterSpawn(f), !.handle = "running"] :
        f \in Consoles}

(* -------------------------- Session::call ----------------------------- *)
\* What the server may put on the channel: output, the command's exit
\* status, and the messages call ignores (Eof, Close, ExitSignal, ..).
ChannelMsgs == {"Data", "ExitStatus", "Other"}
NoCall ==
    [pc |-> "idle", stdin |-> 0, stdin_closed |-> FALSE, inbox |-> <<>>,
     sent |-> 0, closed |-> FALSE, disabled |-> FALSE, exit_seen |-> FALSE,
     result |-> "none"]

\* `?`: the call returns the error.
CallFails(c) == [c EXCEPT !.pc = "done", !.result = "Err"]

\* The channel is opened, the pty requested, the command started and the
\* local stdin and stdout wrapped; each step may fail.
CallSetup ==
    /\ call.pc = "open"
    /\ \/ call' = [call EXCEPT !.pc = "loop"]
       \/ call' = CallFails(call)
    /\ UNCHANGED <<tunnelVars, annot, xfer, console>>

\* The server puts a message on the channel.
ServerSends ==
    /\ call.pc \in {"open", "loop"} /\ ~call.closed
    /\ call.sent < MaxBytes
    /\ \E m \in ChannelMsgs :
          call' = [call EXCEPT !.inbox = Append(@, m), !.sent = @ + 1]
    /\ UNCHANGED <<tunnelVars, annot, xfer, console>>

\* The channel is closed (by the server, or with the connection): once the
\* queued messages are taken, channel.wait() yields None.
ServerCloses ==
    /\ call.pc \in {"open", "loop"} /\ ~call.closed
    /\ call' = [call EXCEPT !.closed = TRUE]
    /\ UNCHANGED <<tunnelVars, annot, xfer, console>>

\* Branch `r = stdin.read(&mut buf), if !stdin_closed`.
StdinRead ==
    /\ call.pc = "loop" /\ ~call.stdin_closed
    /\ \/ /\ call.stdin > 0      \* Ok(n): channel.data(..)
          /\ \/ call' = [call EXCEPT !.stdin = @ - 1, !.disabled = FALSE]
             \/ call' = CallFails(call)
       \/ /\ call.stdin = 0      \* Ok(0): stdin_closed = true; channel.eof()
          /\ \/ call' = [call EXCEPT !.stdin_closed = TRUE, !.disabled = FALSE]
             \/ call' = CallFails([call EXCEPT !.stdin_closed = TRUE])
       \/ call' = CallFails(call)  \* Err(source): ReadStdin
    /\ UNCHANGED <<tunnelVars, annot, xfer, console>>

\* Branch `Some(msg) = channel.wait()` with a message.
ChannelMessage ==
    /\ call.pc = "loop" /\ ~call.disabled /\ call.inbox # <<>>
    /\ LET msg == Head(call.inbox)
           taken == [call EXCEPT !.inbox = Tail(@), !.disabled = FALSE]
       IN  \/ /\ msg = "Data"        \* stdout.write_all, flush
              /\ \/ call' = taken
                 \/ call' = CallFails(taken)
           \/ /\ msg = "ExitStatus"  \* code = exit_status; eof; break; Ok(code)
              /\ \/ call' = [taken EXCEPT !.exit_seen = TRUE, !.pc = "done",
                                           !.result = "code"]
                 \/ /\ ~call.stdin_closed
                    /\ call' = CallFails([taken EXCEPT !.exit_seen = TRUE])
           \/ /\ msg = "Other"       \* _ => {}
              /\ call' = taken
    /\ UNCHANGED <<tunnelVars, annot, xfer, console>>

\* What select! does when every branch is disabled and there is no else
\* branch.
AllBranchesDisabled == "panic"

\* Branch `Some(msg) = channel.wait()` with None: the pattern does not match
\* and select! disables the branch for this pass of the loop; it goes on
\* waiting for stdin if that branch is enabled.
ChannelNone ==
    /\ call.pc = "loop" /\ ~call.disabled
    /\ call.inbox = <<>> /\ call.closed
    /\ call' = IF call.stdin_closed
               THEN [call EXCEPT !.pc = "done", !.result = AllBranchesDisabled]
               ELSE [call EXCEPT !.disabled = TRUE]
    /\ UNCHANGED <<tunnelVars, annot, xfer, console>>

CallStep ==
    \/ CallSetup \/ ServerSends \/ ServerCloses \/ StdinRead \/ ChannelMessage
    \/ ChannelNone

\* The call starts with some input waiting on the local stdin.
SessionCalls == {[NoCall EXCEPT !.pc = "open", !.stdin = n] : n \in 0..MaxBytes}

NoCalls == annot = NoAnnot /\ xfer = NoXfer /\ console = NoConsole /\ call = NoCall

(* -------------------------- specifications -------------------------- *)
InitFor(cmd, counts, ports) ==
    /\ command = cmd
    /\ nMappings \in counts
    /\ local_addr \in {f \in [Listeners -> ports \cup {0}] :
                          \A l \in Listeners :
                             IF l > nMappings THEN f[l] = 0 ELSE f[l] \in ports}
    /\ pc = [l \in Listeners |-> IF l <= nMappings THEN "bind" ELSE "idle"]
    /\ actual_addr = [l \in Listeners |-> 0]
    /\ ready = [l \in Listeners |-> [calls |-> 0, addr |-> 0]]
    /\ cancel_token = [l \in Listeners |-> FALSE]
    /\ receiverDropped = [l \in Listeners |-> FALSE]
    /\ events = [l \in Listeners |-> <<>>]
    /\ join_set = [l \in Listeners |-> {}]
    /\ task = [t \in TaskIds |-> NoTask]
    /\ conn = [x \in Listeners \X ConnIds |-> "none"]
    /\ result = [l \in Listeners |-> "none"]
    /\ exitStatus = [l \in Listeners \cup {SshTask} |-> "none"]
    /\ shutdownFired = FALSE
    /\ interrupted = FALSE
    /\ completions = <<>>
    /\ seen = {}
    /\ firstError = -1
    /\ serveResult = "none"
    /\ cmdResult = "none"
    /\ exitCode = -1
    /\ channel = IF cmd = "ssh" THEN "empty" ELSE "unused"
    /\ ssh = [pc |-> IF cmd = "ssh" THEN "await_addr" ELSE "idle", shutdownCalls |-> 0]
    /\ wire = NoWire

ListenerStep(l) ==
    \/ Bind(l) \/ LocalAddr(l) \/ OnReady(l) \/ SpawnTasks(l)
    \/ ShutdownWatcher(l)
    \/ AcceptConnection(l) \/ AcceptError(l) \/ AcceptCancelled(l)
    \/ ReapTick(l) \/ ReapCancelled(l)
    \/ OnShutdown(l) \/ OnReapConnections(l) \/ OnNewConnection(l)
    \/ DropReceiver(l)
    \/ (\E t \in TaskIds : JoinNext(l, t))
    \/ RunReturns(l)

BridgeStep(l, c) ==
    \/ OpenStream(l, c) \/ CopyEnds(l, c) \/ CopyCancelled(l, c)

SupervisorStep == Interrupt \/ ServeTakesOutcome \/ ServeReturns \/ CommandReturns

SshStep == SshAwaitAddress \/ SshSetup \/ SshCallAndClose

Tunnel ==
    \/ \E l \in Listeners : ListenerStep(l)
    \/ \E l \in Listeners, c \in ConnIds : BridgeStep(l, c)
    \/ SupervisorStep

\* The port-forward command on a pod with at most one port mapping.
Init == InitFor("port-forward", 0..1, RequestedPorts) /\ NoCalls
Next == Tunnel \/ NoPortMappings
Spec == Init /\ [][Next]_vars

\* The port-forward command on a pod with several port mappings: one Listener
\* per mapping, supervised together.
InitGroup == InitFor("port-forward", 2..MaxListeners, MappedPorts) /\ NoCalls
SpecGroup == InitGroup /\ [][Tunnel]_vars

\* The ssh shell command: one Listener and the ssh-client task.
InitSsh == InitFor("ssh", {1}, {0}) /\ NoCalls
NextSsh == Tunnel \/ SshStep
SpecSsh == InitSsh /\ [][NextSsh]_vars

\* The n bytes a peer writes, each one told from the others.
Payload(n) == [i \in 1..n |-> i]

BridgePort == CHOOSE p \in MappedPorts : TRUE

\* The state OnNewConnection leaves when a Listener bound to a mapped port
\* spawns the bridge of its first connection: handle has just been called.
HandleCalled ==
    /\ command = "port-forward" /\ nMappings = 1
    /\ local_addr = [l \in Listeners |-> IF l = 1 THEN BridgePort ELSE 0]
    /\ pc = [l \in Listeners |-> IF l = 1 THEN "loop" ELSE "idle"]
    /\ actual_addr = local_addr
    /\ ready = [l \in Listeners |->
                   IF l = 1 THEN [calls |-> 1, addr |-> BridgePort] ELSE [calls |-> 0, addr |-> 0]]
    /\ cancel_token = [l \in Listeners |-> FALSE]
    /\ receiverDropped = [l \in Listeners |-> FALSE]
    /\ events = [l \in Listeners |-> <<>>]
    /\ join_set = [l \in Listeners |->
                      IF l = 1 THEN {<<1, k, 0>> : k \in Background} \cup {BridgeTask}
                      ELSE {}]
    /\ task = [t \in TaskIds |->
                  IF t[1] = 1 /\ t[2] \in Background THEN Running
                  ELSE IF t = BridgeTask THEN [NoTask EXCEPT !.st = "opening", !.asked = 1]
                  ELSE NoTask]
    /\ conn = [x \in Listeners \X ConnIds |-> IF x = BridgeConn THEN "bridged" ELSE "none"]
    /\ result = [l \in Listeners |-> "none"]
    /\ exitStatus = [l \in Listeners \cup {SshTask} |-> "none"]
    /\ shutdownFired = FALSE
    /\ interrupted = FALSE
    /\ completions = <<>>
    /\ seen = {}
    /\ firstError = -1
    /\ serveResult = "none"
    /\ cmdResult = "none"
    /\ exitCode = -1
    /\ channel = "unused"
    /\ ssh = [pc |-> "idle", shutdownCalls |-> 0]

\* One call of ConnectionHandler::handle followed byte by byte: the local
\* peer has n bytes to write, the pod m, and each closes its side after its
\* last byte.
InitBridge ==
    /\ HandleCalled
    /\ NoCalls
    /\ \E n, m \in 0..MaxBytes :
          wire = [d \in Directions |-> Direction(Payload(IF d = "up" THEN n ELSE m))]

WireStep(d) ==
    \/ PeerWrites(d) \/ PeerCloses(d)
    \/ CopyReads(d) \/ CopyWrites(d) \/ CopyShutdown(d)

NextBridge ==
    \/ OpenStream(1, 1) \/ CopyCancelled(1, 1) \/ CopyCompletes \/ CopyFails
    \/ \E d \in Directions : WireStep(d)
    \/ Interrupt \/ ShutdownWatcher(1) \/ OnShutdown(1)

SpecBridge == InitBridge /\ [][NextBridge]_vars

\* The tunnel before any command has started it.
Idle == InitFor("port-forward", {0}, {0})

RECURSIVE SeqsUpTo(_, _)
SeqsUpTo(S, n) ==
    IF n = 0 THEN {<<>>}
    ELSE SeqsUpTo(S, n - 1)
            \cup {Append(s, x) : s \in {s \in SeqsUpTo(S, n - 1) : Len(s) = n - 1}, x \in S}

\* A pod is created with any service ports and port mappings, and its
\* annotations are read back.
InitPod ==
    /\ Idle
    /\ xfer = NoXfer /\ console = NoConsole /\ call = NoCall
    /\ \E p \in ServicePortsValues, ms \in SeqsUpTo(PortMappingValues, MaxMappings) :
          annot = [NoAnnot EXCEPT !.on = TRUE, !.service_ports = p, !.port_mappings = ms]
NextPod ==
    \/ WriteServicePorts \/ ReadServicePorts \/ WritePortMapping \/ ReadPortMapping
    \/ CreatePod \/ ReadPodPortMappings \/ ReadPodServicePorts
SpecPod == InitPod /\ [][NextPod]_vars

\* One call of Session::upload, Session::download, PodConsole::run,
\* PodConsole::attach or Session::call.
InitCalls ==
    /\ Idle
    /\ annot = NoAnnot
    /\ \/ xfer \in XferCalls /\ console = NoConsole /\ call = NoCall
       \/ xfer = NoXfer /\ console \in ConsoleCalls /\ call = NoCall
       \/ xfer = NoXfer /\ console = NoConsole /\ call \in SessionCalls
NextCalls == XferStep \/ ConsoleStep \/ CallStep
SpecCalls == InitCalls /\ [][NextCalls]_vars

(* ------------------------------ fairness ---------------------------- *)
\* The runtime keeps polling every task that can make progress, sigfinn keeps
\* serving, and an awaited bind or portforward call completes. Nothing makes
\* a client connect, a peer close its connection, the timer tick or the user
\* interrupt.
MainStep(l) ==
    \/ Bind(l) \/ LocalAddr(l) \/ OnReady(l) \/ SpawnTasks(l)
    \/ OnShutdown(l) \/ OnReapConnections(l) \/ OnNewConnection(l)
    \/ DropReceiver(l)
    \/ (\E t \in TaskIds : JoinNext(l, t))
    \/ RunReturns(l)

Fairness ==
    /\ \A l \in Listeners :
          /\ WF_vars(MainStep(l))
          /\ WF_vars(ShutdownWatcher(l))
          /\ WF_vars(AcceptCancelled(l))
          /\ WF_vars(ReapCancelled(l))
          /\ \A c \in ConnIds : WF_vars(OpenStream(l, c) \/ CopyCancelled(l, c))
    /\ WF_vars(ServeTakesOutcome \/ ServeReturns \/ CommandReturns)
    /\ WF_vars(SshAwaitAddress)

\* The same without the API server: nothing makes a portforward call that
\* is under way complete.
FairnessLocal ==
    /\ \A l \in Listeners :
          /\ WF_vars(MainStep(l))
          /\ WF_vars(ShutdownWatcher(l))
          /\ WF_vars(AcceptCancelled(l))
          /\ WF_vars(ReapCancelled(l))
          /\ \A c \in ConnIds : WF_vars(CopyCancelled(l, c))
    /\ WF_vars(ServeTakesOutcome \/ ServeReturns \/ CommandReturns)

FairSpec == Spec /\ Fairness
FairLocal == Spec /\ FairnessLocal
FairGroup == SpecGroup /\ Fairness
FairSsh == SpecSsh /\ Fairness

(* ------------------------------- claims ----------------------------- *)
TasksOf(l) == {t \in TaskIds : t[1] = l}
BridgesOf(l) == {t \in TaskIds : t[1] = l /\ t[2] = "B"}
Spawned(t) == task[t].st # "none"

\* C1: every task a Listener starts produces exactly one outcome, which is
\* consumed exactly once (by a reap pass or by the final join); a task that is
\* spawned and not yet joined is in the JoinSet, and when run returns no task
\* is left unjoined.
C1_OneOutcomeJoinedOnce ==
    \A l \in Listeners :
        /\ \A t \in TasksOf(l) :
              /\ task[t].produced = (IF task[t].st = "done" THEN 1 ELSE 0)
              /\ (task[t].outcome # "none") = (task[t].st = "done")
              /\ task[t].joined <= task[t].produced
              /\ (task[t].joined = 1) = (task[t].by # "none")
              /\ (t \in join_set[l]) = (Spawned(t) /\ task[t].joined = 0)
        /\ pc[l] = "returned" =>
              /\ join_set[l] = {}
              /\ \A t \in TasksOf(l) :
                    Spawned(t) => task[t].produced = 1 /\ task[t].joined = 1

\* A run has returned with one bridge joined by a reap pass and one by the
\* final join, the three background tasks joined too.
C1_Witness ==
    /\ pc[1] = "returned" /\ result[1] = "Ok"
    /\ \E t, u \in BridgesOf(1) : task[t].by = "reap" /\ task[u].by = "join"
    /\ \A k \in Background : task[<<1, k, 0>>].joined = 1

Failed(t) == task[t].outcome = "Err"
BoundOk(l) == ready[l].calls > 0

\* What a failed bridge leaves in place, in every state.
C2_Contained ==
    \A l \in Listeners :
        /\ cancel_token[l] => shutdownFired
        /\ shutdownFired =>
              interrupted \/ \E m \in Active : result[m] = "ErrBind"
        /\ (\E t \in BridgesOf(l) : Failed(t)) /\ ~cancel_token[l] =>
              pc[l] = "loop" /\ task[<<l, "A", 0>>].st = "run"
        /\ (\E t \in TasksOf(l) : Spawned(t)) =>
              result[l] # "ErrBind" /\ exitStatus[l] # "Error"

\* What the step in which a bridge fails leaves unchanged.
C2_FailingStep ==
    \A t \in TaskIds :
        ~Failed(t) /\ task'[t].outcome = "Err" =>
            /\ \A u \in TaskIds \ {t} : task'[u] = task[u]
            /\ UNCHANGED <<cancel_token, shutdownFired, events, pc, result,
                           exitStatus, firstError, join_set>>

Terminated(l) ==
    /\ pc[l] = "returned"
    /\ \A t \in TasksOf(l) : task[t].st \in {"none", "done"}

SignalObserved(l) == task[<<l, "W", 0>>].st = "done" /\ shutdownFired

\* C4: once the shutdown signal given to the Listener has fired (here even:
\* once the watcher has seen it complete), no NewConnection event is turned
\* into a bridge task.
C4_NoBridgeAfterSignal ==
    [][\A l \in Listeners :
          SignalObserved(l) =>
              \A t \in BridgesOf(l) : ~Spawned(t) => task'[t].st = "none"]_vars

\* C5: the readiness callback is invoked after the bind and before any
\* connection is accepted, so before any bridge exists or copies.
C5_ReadyBeforeServe ==
    \A l \in Listeners :
        /\ ready[l].calls > 0 => actual_addr[l] # 0
        /\ (\E c \in ConnIds : conn[<<l, c>>] # "none") => ready[l].calls > 0
        /\ (\E t \in BridgesOf(l) : Spawned(t)) => ready[l].calls > 0

\* A bridge is copying bytes and readiness was published for its Listener.
C5_Witness ==
    \E t \in BridgesOf(1) :
        task[t].st = "copying" /\ ready[1].calls = 1 /\ actual_addr[1] # 0

PastOnReady(l) == pc[l] \in {"spawn", "loop", "drop_receiver", "join"} \/ result[l] = "Ok"

\* C6: on_ready is invoked exactly once per Listener whose bind succeeds,
\* with the address the OS bound (a concrete port when port 0 was requested),
\* and never when bind or reading the bound address fails.
C6_ReadyOnceWithBoundAddress ==
    \A l \in Listeners :
        /\ ready[l].calls <= 1
        /\ PastOnReady(l) => ready[l].calls = 1
        /\ ready[l].calls = 1 =>
              /\ ready[l].addr = actual_addr[l]
              /\ ready[l].addr # 0
              /\ local_addr[l] # 0 => ready[l].addr = local_addr[l]
        /\ result[l] = "ErrBind" => ready[l].calls = 0

\* Port 0 was requested and on_ready got the ephemeral port the OS chose.
C6_Witness ==
    /\ local_addr[1] = 0 /\ PastOnReady(1)
    /\ ready[1].calls = 1 /\ ready[1].addr \in EphemeralPorts

\* After a failed bind the channel is closed and the consumer can only fail.
C7_Closed ==
    result[1] = "ErrBind" =>
        /\ channel = "closed"
        /\ ssh.pc \in {"await_addr", "done"}
        /\ ssh.pc = "done" => exitStatus[SshTask] = "Error"

\* C7: when the Listener fails before binding, the readiness sender is
\* dropped without a value and the ssh-client task, which awaits it, ends
\* with an Error; it never waits forever.
C7_ReadinessLostIsAnError ==
    /\ []C7_Closed
    /\ (result[1] = "ErrBind") ~> (ssh.pc = "done" /\ exitStatus[SshTask] = "Error")

\* The bind failed and the ssh-client task has ended with an Error without
\* ever getting an address.
C7_Witness ==
    /\ result[1] = "ErrBind" /\ channel = "closed"
    /\ ssh.pc = "done" /\ exitStatus[SshTask] = "Error" /\ ssh.shutdownCalls = 0

\* The state run leaves behind when the bind failed.
C8_Returned ==
    \A l \in Listeners :
        result[l] = "ErrBind" =>
            /\ pc[l] = "returned" /\ exitStatus[l] = "Error"
            /\ ready[l].calls = 0
            /\ \A t \in TasksOf(l) : ~Spawned(t)
            /\ join_set[l] = {} /\ events[l] = <<>>
            /\ \A c \in ConnIds : conn[<<l, c>>] = "none"

\* After a failed bind run stays returned and binds nothing.
C8_NoRetry ==
    \A l \in Listeners :
        result[l] = "ErrBind" =>
            pc'[l] = "returned" /\ actual_addr'[l] = actual_addr[l]

\* C8: when the bind fails the Listener returns the Error at once: it has
\* not called on_ready, has spawned no task, and does not bind again.
C8_BindFailureReturnsAtOnce == []C8_Returned /\ [][C8_NoRetry]_vars

\* The bind itself failed (nothing was bound) and run has returned the Error.
C8_Witness ==
    /\ result[1] = "ErrBind" /\ actual_addr[1] = 0 /\ pc[1] = "returned"
    /\ serveResult = "Err"

ErrorsProduced == {i \in 1..Len(completions) : completions[i][2] = "Error"}
FirstErrorProduced ==
    IF ErrorsProduced = {} THEN -1
    ELSE completions[CHOOSE i \in ErrorsProduced : \A j \in ErrorsProduced : i <= j][1]
\* The command returns Err(err) with the err serve() returned.
ReportedError == IF cmdResult = "Err" THEN firstError ELSE -1

C10_Success ==
    /\ \A l \in Listeners :
          pc[l] = "returned" /\ BoundOk(l) =>
              result[l] = "Ok" /\ exitStatus[l] = "Success" /\ shutdownFired
    /\ BoundOk(1) /\ exitCode # -1 => exitCode = 0

C11_CancelReachesEveryTask ==
    \A l \in Listeners :
        cancel_token[l] ~> (\A t \in TasksOf(l) : task[t].st \in {"none", "done"})

\* C12: once the token of a Listener is cancelled, run returns, whether or
\* not every task it waits for terminates.
C12_DrainIsBounded ==
    \A l \in Listeners : cancel_token[l] ~> (pc[l] = "returned")

AcceptFailed(l) == \E c \in ConnIds : conn[<<l, c>>] = "failed"

\* C13: an accept() failure that happens while no cancellation is under way
\* stops the accept loop, and a Listener whose accept() failed returns Error.
C13_AcceptFailureIsFatal ==
    /\ [][\A l \in Listeners, c \in ConnIds :
              /\ conn[<<l, c>>] = "none" /\ conn'[<<l, c>>] = "failed"
              /\ ~cancel_token[l] /\ ~shutdownFired
              => task'[<<l, "A", 0>>].st = "done"]_vars
    /\ [](\A l \in Listeners :
              AcceptFailed(l) /\ pc[l] = "returned" => exitStatus[l] = "Error")

\* C14: when the remote stream cannot be opened the bridge ends with an
\* Error, the copy has neither read nor delivered a byte in either direction,
\* no remote stream exists and the local connection is closed.
C14_OpenFailureForwardsNothing ==
    task[BridgeTask].how = "open_failed" =>
        /\ task[BridgeTask].st = "done" /\ task[BridgeTask].outcome = "Err"
        /\ \A d \in Directions : wire[d].buf = <<>> /\ wire[d].dst = <<>>
        /\ task[BridgeTask].remote = "none"
        /\ conn[BridgeConn] = "closed"

\* The open failed after the local peer had written both its bytes: they sit
\* unread in the closed connection.
C14_Witness ==
    /\ task[BridgeTask].how = "open_failed" /\ task[BridgeTask].outcome = "Err"
    /\ Len(wire["up"].pipe) = MaxBytes /\ conn[BridgeConn] = "closed"

\* C15: the outcome of a bridge that got to copy follows from how the copy
\* ended: Error for an I/O error other than a broken pipe or a reset, Success
\* for end of stream, broken pipe / reset and cancellation.
C15_OutcomeFollowsCopyEnd ==
    \A t \in TaskIds :
        task[t].st = "done" /\ task[t].how \in CopyEndings \cup {"cancel"} =>
            task[t].outcome = (IF task[t].how = "io_error" THEN "Err" ELSE "Ok")

\* C16: on the connection followed byte by byte, what has arrived at a peer
\* is always a prefix of what the other peer wrote, nothing under way is lost,
\* duplicated or reordered, and when the copy ends with end of stream on both
\* sides every byte either peer wrote has arrived at the other.
C16_BytesArriveInOrder ==
    \A d \in Directions :
        LET all == wire[d].dst \o wire[d].buf \o wire[d].pipe \o wire[d].src IN
        /\ all = Payload(Len(all))
        /\ task[BridgeTask].how = "eof" =>
              /\ wire[d].dst = all
              /\ wire[d].closed /\ wire[d].st = "done"

\* The copy has ended with end of stream; each peer wrote MaxBytes bytes and
\* got the MaxBytes bytes of the other.
C16_Witness ==
    /\ task[BridgeTask].how = "eof" /\ task[BridgeTask].outcome = "Ok"
    /\ \A d \in Directions : wire[d].dst = Payload(MaxBytes)

\* C17: when a bridge has produced its outcome, on whichever path, its local
\* connection is closed, and its remote stream is closed if one was opened;
\* a remote stream is open only while the bridge copies.
C17_StreamsClosedOnExit ==
    \A l \in Listeners, c \in ConnIds :
        LET t == <<l, "B", c>> IN
        /\ task[t].st = "done" =>
              /\ conn[<<l, c>>] = "closed"
              /\ task[t].remote =
                    (IF task[t].how \in CopyEndings \cup {"cancel"} THEN "closed" ELSE "none")
        /\ (task[t].remote = "open") = (task[t].st = "copying")
        /\ task[t].st = "opening" => task[t].remote = "none"

\* One bridge failed to open its stream, the other was cancelled while
\* copying: both local connections are closed, and the one remote stream too.
C17_Witness ==
    /\ task[<<1, "B", 1>>].how = "open_failed" /\ conn[<<1, 1>>] = "closed"
    /\ task[<<1, "B", 2>>].how = "cancel" /\ conn[<<1, 2>>] = "closed"
    /\ task[<<1, "B", 2>>].remote = "closed"

ShutdownsQueued(l) ==
    Cardinality({i \in 1..Len(events[l]) : events[l][i].type = "Shutdown"})
ShutdownsTaken(l) == IF pc[l] \in {"drop_receiver", "join"} \/ result[l] = "Ok" THEN 1 ELSE 0

\* Cancellation is triggered in this step: by an interrupt, or by the drop
\* of the HandleGuard.
Triggered == interrupted' # interrupted \/ ssh'.shutdownCalls # ssh.shutdownCalls

\* Whatever was triggered, and how often: one Shutdown, one outcome a task.
C18_Once ==
    /\ ssh.shutdownCalls <= 1
    /\ \A l \in Listeners :
          /\ ShutdownsQueued(l) + ShutdownsTaken(l) <= 1
          /\ \A t \in TasksOf(l) : task[t].produced <= 1 /\ task[t].joined <= 1
    /\ \A i, j \in 1..Len(completions) :
          completions[i][1] = completions[j][1] => i = j

\* C18: a trigger that comes when cancellation was already triggered changes
\* nothing of the Listener, of the signal or of what serve() has recorded;
\* and whether cancellation was triggered once or twice, each Listener gets
\* one Shutdown event, runs its shutdown sequence once, and every task
\* produces one outcome.
C18_SecondTriggerIsNoOp ==
    /\ []C18_Once
    /\ [][shutdownFired /\ Triggered =>
              UNCHANGED <<listenerVars, shutdownFired, seen, firstError, serveResult,
                          commandVars>>]_vars

\* The HandleGuard called shutdown() and an interrupt came too; the Listener
\* has shut down once and returned Success, every task joined.
C18_Witness ==
    /\ interrupted /\ ssh.shutdownCalls = 1
    /\ Terminated(1) /\ result[1] = "Ok" /\ join_set[1] = {}
    /\ serveResult # "none"

\* C19: when the ssh-client task has produced its outcome, shutdown() has
\* been called on the handle.
C19_ShutdownOnEveryExit ==
    ssh.pc = "done" => ssh.shutdownCalls >= 1

Handed(l, c) ==
    Cardinality({i \in 1..Len(events[l]) :
                    events[l][i].type = "NewConnection" /\ events[l][i].conn = c})
        + (IF Spawned(<<l, "B", c>>) THEN 1 ELSE 0)

\* An accepted stream is in one place: in its event, in its bridge, or gone.
C20_OneOwner ==
    \A l \in Listeners, c \in ConnIds :
        /\ Handed(l, c) <= 1
        /\ conn[<<l, c>>] = "queued" => Handed(l, c) = 1 /\ ~Spawned(<<l, "B", c>>)
        /\ Spawned(<<l, "B", c>>) => conn[<<l, c>>] \in {"bridged", "closed"}

\* C20: every accepted connection is handed to at most one bridge: its
\* NewConnection event is in the channel once, a bridge is spawned only for a
\* connection that is still in the channel, and never a second time.
C20_OneBridgePerConnection ==
    /\ []C20_OneOwner
    /\ [][\A l \in Listeners, c \in ConnIds :
              task'[<<l, "B", c>>].st = "opening" /\ task[<<l, "B", c>>].st # "opening"
              => ~Spawned(<<l, "B", c>>) /\ conn[<<l, c>>] = "queued"]_vars

\* Two connections were accepted back to back, both events were queued, and
\* each has got its own bridge.
C20_Witness ==
    /\ task[<<1, "B", 1>>].st = "copying" /\ task[<<1, "B", 2>>].st = "opening"
    /\ conn[<<1, 1>>] = "bridged" /\ conn[<<1, 2>>] = "bridged"
    /\ join_set[1] = {<<1, k, 0>> : k \in Background} \cup BridgesOf(1)

Bridges == {t \in TaskIds : t[2] = "B"}

\* A bridge has made its one call from its spawn on, and no other.
C21_AskedOnce ==
    \A t \in Bridges :
        /\ task[t].asked = (IF Spawned(t) THEN 1 ELSE 0)
        /\ task[t].remote # "none" => task[t].how \notin {"no_stream", "open_failed"}

\* A bridge gets a stream only as the answer to its call, and only once.
C21_OneStream ==
    \A t \in Bridges :
        /\ task[t].remote # "open" /\ task'[t].remote = "open" =>
              task[t].remote = "none" /\ task[t].st = "opening"
        /\ task[t].remote = "closed" => task'[t].remote = "closed"
        /\ task[t].st = "done" => task'[t].st = "done" /\ task'[t].asked = task[t].asked

\* C21: every bridge calls the RemoteStreamProvider once, at its start, and
\* not again after a failure; it gets at most one remote stream, as the
\* answer to that call, and once that stream is closed it has no other.
C21_OneAskOneStream == []C21_AskedOnce /\ [][C21_OneStream]_vars

\* One bridge failed to open its stream and has ended; its sibling copies on
\* the stream its own call returned.
C21_Witness ==
    /\ task[<<1, "B", 1>>].how = "open_failed" /\ task[<<1, "B", 1>>].asked = 1
    /\ task[<<1, "B", 1>>].remote = "none"
    /\ task[<<1, "B", 2>>].st = "copying" /\ task[<<1, "B", 2>>].asked = 1

\* The event loop and the accept task can go on whatever the bridges do.
C24_NothingWaits ==
    \A l \in Listeners :
        /\ pc[l] = "loop" /\ events[l] # <<>> =>
              ENABLED (OnShutdown(l) \/ OnReapConnections(l) \/ OnNewConnection(l))
        /\ task[<<l, "A", 0>>].st = "run" /\ Accepted < ConnBudget =>
              ENABLED AcceptConnection(l)

\* C24: while bridges run and none completes, the accept task can accept,
\* the event loop can take its next event, be it a reap pass or a new
\* connection, and every accepted connection gets its bridge (or is dropped
\* by a shutdown).
C24_AcceptNeverWaitsForBridges ==
    /\ []C24_NothingWaits
    /\ \A l \in Listeners, c \in ConnIds :
          (conn[<<l, c>>] = "queued") ~> (conn[<<l, c>>] \in {"bridged", "closed"})

\* Two bridges copy, neither has completed, and the Listener is still in its
\* loop with the accept task running.
C24_Witness ==
    /\ task[<<1, "B", 1>>].st = "copying" /\ task[<<1, "B", 2>>].st = "copying"
    /\ pc[1] = "loop" /\ task[<<1, "A", 0>>].st = "run" /\ ~cancel_token[1]

\* C25: once the token is cancelled and the watcher, the accept task and the
\* reap task have ended, the Listener returns, whether or not its bridges end.
C25_ReturnsWithoutBridges ==
    \A l \in Listeners :
        (cancel_token[l] /\ \A k \in Background : task[<<l, k, 0>>].st = "done")
            ~> (pc[l] = "returned")

\* Where a Listener is when its token is cancelled.
C26_Cancelled ==
    \A l \in Listeners :
        cancel_token[l] =>
            /\ shutdownFired /\ task[<<l, "W", 0>>].st = "done"
            /\ pc[l] \in {"drop_receiver", "join", "returned"}

\* How the token gets cancelled, and what cannot follow.
C26_Step ==
    \A l \in Listeners :
        /\ ~cancel_token[l] /\ cancel_token'[l] =>
              /\ pc[l] = "loop" /\ events[l] # <<>>
              /\ Head(events[l]).type = "Shutdown" /\ shutdownFired
        /\ cancel_token[l] =>
              /\ cancel_token'[l] /\ pc'[l] # "loop"
              /\ \A t \in BridgesOf(l) : ~Spawned(t) => ~Spawned(t)'
              /\ \A t \in TasksOf(l) : task'[t].by = "reap" => task[t].by = "reap"

\* C26: the token is cancelled only by the event loop taking a Shutdown
\* event, so only after the shutdown signal fired; from then on the loop is
\* left for good: no bridge is spawned and no reap pass runs.
C26_TokenOnlyOnShutdown == []C26_Cancelled /\ [][C26_Step]_vars

\* A connection was queued behind the Shutdown event: the token was
\* cancelled, the connection was dropped without a bridge, run returned.
C26_Witness ==
    /\ cancel_token[1] /\ pc[1] = "returned"
    /\ Spawned(<<1, "B", 1>>) /\ ~Spawned(<<1, "B", 2>>) /\ conn[<<1, 2>>] = "closed"

\* C29: the reap task ends only when the token has been cancelled (through
\* its cancelled() branch, or through a send that fails because the receiver
\* was dropped after the cancellation) and its outcome is always Success.
C29_ReaperEndsOnCancel ==
    /\ [](\A l \in Listeners :
              task[<<l, "R", 0>>].st = "done" =>
                  /\ cancel_token[l] /\ shutdownFired
                  /\ task[<<l, "R", 0>>].outcome = "Ok"
                  /\ task[<<l, "R", 0>>].how \in {"cancel", "send_failed"})
    /\ [][\A l \in Listeners :
              task[<<l, "R", 0>>].st = "run" /\ task'[<<l, "R", 0>>].st = "done"
              => cancel_token[l]]_vars

\* The reap task has ended with Success on a tick that came after the
\* cancellation, its send failing on the dropped receiver.
C29_Witness ==
    /\ task[<<1, "R", 0>>].how = "send_failed" /\ task[<<1, "R", 0>>].outcome = "Ok"
    /\ cancel_token[1] /\ receiverDropped[1]

\* The event loop takes a ReapConnections event in this step.
ReapPass(l) ==
    /\ pc[l] = "loop" /\ events[l] # <<>> /\ Head(events[l]).type = "ReapConnections"
    /\ Len(events'[l]) < Len(events[l])

\* C30: a reap pass takes out of the JoinSet the tasks that have completed
\* and no other, changes no task it leaves in, no connection, no token and no
\* signal, and keeps the loop going; the JoinSet loses a task only in a reap
\* pass or in the final join.
C30_ReapTakesOnlyCompleted ==
    [][\A l \in Listeners :
          /\ ReapPass(l) =>
                /\ join_set'[l] = join_set[l] \ Completed(l)
                /\ \A t \in TaskIds :
                      IF t \in Completed(l)
                      THEN task'[t] = [task[t] EXCEPT !.joined = @ + 1, !.by = "reap"]
                      ELSE task'[t] = task[t]
                /\ UNCHANGED <<cancel_token, shutdownFired, conn, pc, receiverDropped>>
          /\ ~(join_set[l] \subseteq join_set'[l]) => ReapPass(l) \/ pc[l] = "join"]_vars

\* A reap pass has taken the bridge that had ended and left its sibling,
\* which copies, in the JoinSet with the three background tasks.
C30_Witness ==
    /\ task[<<1, "B", 1>>].by = "reap" /\ task[<<1, "B", 2>>].st = "copying"
    /\ join_set[1] = {<<1, k, 0>> : k \in Background} \cup {<<1, "B", 2>>}
    /\ ~cancel_token[1] /\ task[<<1, "A", 0>>].st = "run"

(* ---------------------- annotations and calls ------------------------- *)
\* C22: for every ServicePorts value p (each of ssh, http, https absent or
\* a port), from_kubernetes_annotations applied to the annotations that
\* to_kubernetes_annotation(p) wrote yields p again.
C22_ServicePortsRoundTrip ==
    "sp_from" \in annot.done =>
        /\ annot.kv = ServicePortsToAnnotation(annot.service_ports)
        /\ annot.recovered = annot.service_ports

\* Two ports were written and read back, the third was absent.
C22_Witness ==
    /\ "sp_from" \in annot.done
    /\ Len(annot.kv) = 2
    /\ annot.recovered.ssh # None /\ annot.recovered.http = None
    /\ annot.recovered.https # None /\ annot.recovered.https # annot.recovered.ssh

\* The port mappings the pod was created with.
Written == {annot.port_mappings[i] : i \in 1..Len(annot.port_mappings)}

\* C28: for every PortMapping m (IPv4 or IPv6 address, any local and
\* container port), try_from_kubernetes_annotation applied to the key and
\* value of m.to_kubernetes_annotation() returns Ok(m), and a mapping written
\* onto a pod at creation is among those port_mappings() reads back.
C28_PortMappingRoundTrip ==
    /\ "pm_from" \in annot.done =>
          annot.parsed[1].ok /\ annot.parsed[1].v = annot.port_mappings[1]
    /\ "port_mappings" \in annot.done => Written \subseteq annot.mappings

\* The call has left the select with the signal complete.
C23_Cancelled == xfer.result.kind = "Cancelled"

\* C23 as stated: with a cancel signal, if the signal completes before the
\* copy has finished the call returns Error::Cancelled and never a byte
\* count; if the copy finishes first, the copy's result is returned.
C23_SignalFirstCancels ==
    /\ xfer.early =>
          xfer.pc # "shutdown" /\ xfer.result.kind \notin {"bytes", "TransferData"}
    /\ ~xfer.early => ~C23_Cancelled

\* A step of the call itself, not of the signal or of the file I/O.
C23_Polled ==
    /\ xfer.pc = "copy" /\ xfer' # xfer
    /\ xfer'.fired = xfer.fired
    /\ ~(xfer.io = "pending" /\ xfer'.io \in {"ready", "failed"} /\ xfer'.pc = "copy")

\* C23 as amended: with a cancel signal, a poll that finds the signal
\* complete and the copy still pending returns Error::Cancelled and never a
\* byte count; a poll that finds the copy complete returns the copy's
\* result, also when the signal completed first.
C23_PollDecides ==
    [][C23_Polled =>
          IF CopyReady(xfer)
          THEN IF xfer.io = "failed" THEN xfer'.result.kind = "TransferData"
               ELSE xfer'.pc = "shutdown" /\ xfer'.copied = xfer.len
          ELSE IF xfer.has_signal /\ xfer.fired THEN C23_Cancelled'
          ELSE xfer'.pc = "copy"]_vars

\* The signal completed after the first chunk was copied and the call was
\* cancelled.
C23_Witness == C23_Cancelled /\ xfer.copied = 1 /\ xfer.len = MaxChunks

\* C27: PodConsole::run and attach never await the terminal-size task's
\* join handle again after the select has received its result: when that
\* task finishes first the call returns Ok(()).
C27_HandleNotAwaitedAgain ==
    console.branch = "handle" =>
        /\ console.awaited = 0
        /\ console.result \in {"none", "Ok"}

(* --------------------- lifetime of a connection ----------------------- *)
\* C31: a bridge that has started copying ends only because a side reached
\* end-of-stream, an I/O error occurred, or cancellation fired: the step
\* that ends it is its own select completing (with the token cancelled when
\* it ends by cancellation), never a timer tick, a reap pass or the
\* completion of another bridge.
C31_EndsOnlyByCause ==
    [][\A t \in Bridges :
          (task[t].st = "copying" /\ task'[t].st # "copying") =>
              /\ task'[t].st = "done"
              /\ task'[t].how \in CopyEndings \cup {"cancel"}
              /\ task'[t].how = "cancel" => cancel_token[t[1]]
              /\ \A u \in TaskIds \ {t} : task'[u] = task[u]
              /\ events' = events /\ join_set' = join_set]_vars

\* One bridge is still copying after another bridge of its Listener ended
\* and was taken by a reap pass, with no cancellation.
C31_Witness ==
    \E t, u \in Bridges :
        /\ t[1] = u[1] /\ ~cancel_token[t[1]]
        /\ task[t].st = "copying"
        /\ task[u].st = "done" /\ task[u].how \in CopyEndings
        /\ task[u].joined = 1 /\ task[u].by = "reap"

\* Past the bind phase, run has left its event loop or returned.
C32_LeftLoop(l) == pc[l] \in {"drop_receiver", "join"} \/ result[l] = "Ok"

C33_TaskJoinedOnExit ==
    (console.fn = "run" /\ console.pc = "done") =>
        console.cancelled /\ console.handle = "consumed"

\* C35: in Session::call's loop at least one select branch is always
\* enabled: with local stdin at EOF (stdin_closed) and a channel that yields
\* no further message without an ExitStatus, the select does not run out of
\* branches, and the call returns a code only after an ExitStatus message
\* was received.
C35_SelectNeverRunsDry ==
    /\ call.result # AllBranchesDisabled
    /\ call.result = "code" => call.exit_seen

\* C34: by the time run returns, every connection the accept task accepted
\* has either been handed to one bridge that has finished and been joined,
\* or been closed without a bridge and without a remote stream ever opened
\* for it; no accepted connection remains queued or open.
C34_NoConnectionLeftOpen ==
    \A l \in Listeners :
        pc[l] = "returned" =>
            /\ events[l] = <<>>
            /\ \A c \in ConnIds :
                  LET t == <<l, "B", c>> IN
                  \/ conn[<<l, c>>] \in {"none", "failed"} /\ ~Spawned(t)
                  \/ /\ conn[<<l, c>>] = "closed"
                     /\ \/ /\ task[t].st = "done" /\ task[t].produced = 1
                           /\ task[t].joined = 1 /\ task[t].remote # "open"
                        \/ /\ ~Spawned(t)
                           /\ task[t].remote = "none" /\ task[t].asked = 0

\* run has returned after two connections: the first was bridged, and its
\* bridge finished; the second was still queued when Shutdown was taken and
\* was closed with the receiver, no bridge and no remote stream.
C34_Witness ==
    /\ pc[1] = "returned" /\ result[1] = "Ok"
    /\ conn[<<1, 1>>] = "closed" /\ task[<<1, "B", 1>>].st = "done"
    /\ task[<<1, "B", 1>>].remote = "closed"
    /\ conn[<<1, 2>>] = "closed" /\ ~Spawned(<<1, "B", 2>>)
====
